---- MODULE Spec2Model ----
(***************************************************************************)
(* Model of component_slider_plot.py: create_dataframes, the filter /      *)
(* merge / plot pipeline of plot_filtered_components_with_scroll, and the  *)
(* slider callback update(val) that moves the visible x-axis window.       *)
(*                                                                         *)
(* Timestamps are integers (minutes since the start instant).  Python      *)
(* positions are 0-based, TLA+ sequences 1-based: Iloc does the shift.     *)
(* xlim holds the pair of limits handed to ax.set_xlim.                    *)
(***************************************************************************)
EXTENDS Integers, Sequences, FiniteSets

VARIABLES dev_df, prod_df, component_name,
          pc, dev_filtered, prod_filtered, all_timestamps,
          output, fig, lines, xlim, start_idx, end_idx, slider,
          exception, moves

vars == <<dev_df, prod_df, component_name, pc, dev_filtered, prod_filtered,
          all_timestamps, output, fig, lines, xlim, start_idx, end_idx,
          slider, exception, moves>>

----------------------------------------------------------------------------
(* Bounds of the model *)

\* rows, dev and prod together, of the series handed directly to
\* plot_filtered_components_with_scroll
MaxLen == 3
\* rows produced by create_dataframes (periods)
Periods == 24
\* slider changes recorded in one session
MaxMoves == 2

(* Program constants *)

window_size == 20
Freq == 30
VolumeLow == 50
VolumeHigh == 500

\* instants carried by the rows of a series handed in directly
Instants == {1, 2}

None == "None"
Components == {"ComponentA", "ComponentB"}
NoException == "NoException"
NoDataMsg == "No data available for component: "
NoTimestampsMsg == "No valid timestamps for component: "

Min(a, b) == IF a <= b THEN a ELSE b
Max(a, b) == IF a >= b THEN a ELSE b

----------------------------------------------------------------------------
(* DataFrames: a sequence of rows [timestamp, volume, component] *)

Row(t, v, c) == [timestamp |-> t, volume |-> v, component |-> c]

\* create_dataframes, for the label draw in which the first d dev rows and
\* the last p prod rows carry ComponentA and the other rows alternate
\* between no label and ComponentB
DevComponent(i, d) ==
    IF i <= d THEN "ComponentA" ELSE IF i % 2 = 0 THEN "ComponentB" ELSE None

ProdComponent(i, p) ==
    IF i > Periods - p THEN "ComponentA"
    ELSE IF i % 2 = 1 THEN "ComponentB" ELSE None

DateRange == [i \in 1..Periods |-> (i - 1) * Freq]

CreateDevDf(d) ==
    [i \in 1..Periods |->
        Row(DateRange[i], VolumeLow + i, DevComponent(i, d))]

CreateProdDf(p) ==
    [i \in 1..Periods |->
        Row(DateRange[i], VolumeHigh - i, ProdComponent(i, p))]

\* series a caller may hand to the plotting function directly
Readings ==
    {Row(t, VolumeLow, c) : t \in Instants, c \in Components \cup {None}}

SeqsUpTo(S, n) == UNION {[1..k -> S] : k \in 0..n}

----------------------------------------------------------------------------
(* pandas operations used by the plotting function *)

Empty(s) == Len(s) = 0

\* rows of s whose mask entry is TRUE, in order (boolean indexing)
\* faulty variant: the selected rows come out in reverse order
RECURSIVE BoolIndexRev(_, _)
BoolIndexRev(s, mask) ==
    IF s = <<>> THEN <<>>
    ELSE IF Head(mask) THEN BoolIndexRev(Tail(s), Tail(mask)) \o <<Head(s)>>
         ELSE BoolIndexRev(Tail(s), Tail(mask))

RECURSIVE BoolIndex(_, _)
BoolIndex(s, mask) ==
    IF s = <<>> THEN <<>>
    ELSE IF Head(mask) THEN <<Head(s)>> \o BoolIndex(Tail(s), Tail(mask))
         ELSE BoolIndex(Tail(s), Tail(mask))

\* df['component'] == component_name, elementwise: a missing label
\* compares False
\* faulty variant: != in place of ==
NeComponent(c, name) == IF c = None THEN TRUE ELSE c # name

EqComponent(c, name) == IF c = None THEN FALSE ELSE c = name

Filter(df, name) ==
    BoolIndex(df, [i \in 1..Len(df) |-> EqComponent(df[i].component, name)])

TimestampCol(df) == [i \in 1..Len(df) |-> df[i].timestamp]

Concat(a, b) == a \o b

\* drop_duplicates(): keeps the first occurrence of each value
\* faulty variants: drop_duplicates() left out; drop_duplicates(keep=False)
DropDuplicatesMissing(s) == s

DropDuplicatesKeepNone(s) ==
    BoolIndex(s, [i \in 1..Len(s) |->
                     ~ \E j \in 1..Len(s) : j # i /\ s[j] = s[i]])

DropDuplicates(s) ==
    BoolIndex(s, [i \in 1..Len(s) |-> ~ \E j \in 1..(i - 1) : s[j] = s[i]])

\* sort_values(): ascending
RECURSIVE InsertSorted(_, _)
InsertSorted(x, s) ==
    IF s = <<>> THEN <<x>>
    ELSE IF x <= Head(s) THEN <<x>> \o s
         ELSE <<Head(s)>> \o InsertSorted(x, Tail(s))

RECURSIVE SortValues(_)
SortValues(s) ==
    IF s = <<>> THEN <<>> ELSE InsertSorted(Head(s), SortValues(Tail(s)))

MergeTimestamps(dev_f, prod_f) ==
    SortValues(DropDuplicates(Concat(TimestampCol(dev_f), TimestampCol(prod_f))))

\* Series.iloc[i]: Python position, negative positions count from the end,
\* anything else raises IndexError
IlocOk(s, i) == -Len(s) <= i /\ i <= Len(s) - 1

Iloc(s, i) == IF i >= 0 THEN s[i + 1] ELSE s[Len(s) + i + 1]

----------------------------------------------------------------------------
(* The pieces of plot_filtered_components_with_scroll *)

BothEmpty(dev_f, prod_f) == Empty(dev_f) /\ Empty(prod_f)

Line(label, color, df) ==
    [label |-> label, color |-> color,
     x |-> TimestampCol(df), y |-> [i \in 1..Len(df) |-> df[i].volume]]

\* faulty variant: the prod branch written as elif
PlottedLinesElif(dev_f, prod_f) ==
    IF ~Empty(dev_f) THEN <<Line("Dev Volume", "blue", dev_f)>>
    ELSE IF ~Empty(prod_f) THEN <<Line("Prod Volume", "green", prod_f)>>
         ELSE <<>>

PlottedLines(dev_f, prod_f) ==
    (IF ~Empty(dev_f) THEN <<Line("Dev Volume", "blue", dev_f)>> ELSE <<>>)
    \o (IF ~Empty(prod_f) THEN <<Line("Prod Volume", "green", prod_f)>> ELSE <<>>)

\* end_idx = min(start_idx + window_size, len(all_timestamps)), start_idx = 0
\* faulty variant: the - 1 applied twice
InitialEndIdxLessOne(n) == Min(0 + window_size, n) - 1

InitialEndIdx(n) == Min(0 + window_size, n)

\* Slider(..., 0, max(0, len(all_timestamps) - window_size), valinit=0, valstep=1)
\* faulty variants: the slider spans every position; operands swapped;
\* one step short
SliderValmaxLastIndex(n) == n - 1

SliderValmaxSwapped(n) == Max(0, window_size - n)

SliderValmaxShort(n) == Max(0, n - window_size - 1)

SliderValmax(n) == Max(0, n - window_size)

NoSlider == [created |-> FALSE, valmin |-> 0, valmax |-> 0, val |-> 0]

\* position read for the right limit in update: min(end_idx, len) - 1
\* faulty variant: the - 1 forgotten
UpdateEndPosNoShift(e, n) == Min(e, n)

UpdateEndPos(e, n) == Min(e, n) - 1

----------------------------------------------------------------------------
(* Initial states: main() with generated data, or a direct call *)

InitRest ==
    /\ pc = "filter"
    /\ dev_filtered = <<>>
    /\ prod_filtered = <<>>
    /\ all_timestamps = <<>>
    /\ output = <<>>
    /\ fig = FALSE
    /\ lines = <<>>
    /\ xlim = <<>>
    /\ start_idx = 0
    /\ end_idx = 0
    /\ slider = NoSlider
    /\ exception = NoException
    /\ moves = <<>>

InitMain ==
    /\ \E d \in 0..Periods : dev_df = CreateDevDf(d)
    /\ \E p \in 0..Periods : prod_df = CreateProdDf(p)
    /\ component_name \in Components
    /\ InitRest

InitCall ==
    /\ \E k \in 0..MaxLen :
          /\ dev_df \in SeqsUpTo(Readings, k)
          /\ prod_df \in SeqsUpTo(Readings, MaxLen - k)
    /\ component_name \in Components
    /\ InitRest

Init == InitMain \/ InitCall

----------------------------------------------------------------------------
(* Steps of plot_filtered_components_with_scroll *)

\* lines 35-36
FilterFrames ==
    /\ pc = "filter"
    /\ dev_filtered' = Filter(dev_df, component_name)
    /\ prod_filtered' = Filter(prod_df, component_name)
    /\ pc' = "check_empty"
    /\ UNCHANGED <<dev_df, prod_df, component_name, all_timestamps, output,
                   fig, lines, xlim, start_idx, end_idx, slider, exception,
                   moves>>

\* lines 39-41
CheckEmpty ==
    /\ pc = "check_empty"
    /\ IF BothEmpty(dev_filtered, prod_filtered)
       THEN /\ output' = Append(output, <<NoDataMsg, component_name>>)
            /\ pc' = "returned"
       ELSE /\ output' = output
            /\ pc' = "merge"
    /\ UNCHANGED <<dev_df, prod_df, component_name, dev_filtered,
                   prod_filtered, all_timestamps, fig, lines, xlim,
                   start_idx, end_idx, slider, exception, moves>>

\* lines 44-47
Merge ==
    /\ pc = "merge"
    /\ all_timestamps' = MergeTimestamps(dev_filtered, prod_filtered)
    /\ IF Empty(all_timestamps')
       THEN /\ output' = Append(output, <<NoTimestampsMsg, component_name>>)
            /\ pc' = "returned"
       ELSE /\ output' = output
            /\ pc' = "plot"
    /\ UNCHANGED <<dev_df, prod_df, component_name, dev_filtered,
                   prod_filtered, fig, lines, xlim, start_idx, end_idx,
                   slider, exception, moves>>

\* lines 50-73
Plot ==
    /\ pc = "plot"
    /\ fig' = TRUE
    /\ lines' = PlottedLines(dev_filtered, prod_filtered)
    /\ pc' = "set_limits"
    /\ UNCHANGED <<dev_df, prod_df, component_name, dev_filtered,
                   prod_filtered, all_timestamps, output, xlim, start_idx,
                   end_idx, slider, exception, moves>>

\* lines 76-79
InitialLimits ==
    /\ pc = "set_limits"
    /\ start_idx' = 0
    /\ end_idx' = InitialEndIdx(Len(all_timestamps))
    /\ IF IlocOk(all_timestamps, start_idx') /\ IlocOk(all_timestamps, end_idx' - 1)
       THEN /\ xlim' = <<Iloc(all_timestamps, start_idx'),
                         Iloc(all_timestamps, end_idx' - 1)>>
            /\ exception' = exception
            /\ pc' = "make_slider"
       ELSE /\ xlim' = xlim
            /\ exception' = "IndexError"
            /\ pc' = "raised"
    /\ UNCHANGED <<dev_df, prod_df, component_name, dev_filtered,
                   prod_filtered, all_timestamps, output, fig, lines, slider,
                   moves>>

\* lines 82-96: the slider, its callback, and plt.show()
MakeSlider ==
    /\ pc = "make_slider"
    /\ slider' = [created |-> TRUE, valmin |-> 0,
                  valmax |-> SliderValmax(Len(all_timestamps)), val |-> 0]
    /\ pc' = "show"
    /\ UNCHANGED <<dev_df, prod_df, component_name, dev_filtered,
                   prod_filtered, all_timestamps, output, fig, lines, xlim,
                   start_idx, end_idx, exception, moves>>

\* lines 86-90: the slider is set to v and calls update(v)
Update ==
    /\ pc = "show"
    /\ Len(moves) < MaxMoves
    /\ \E v \in slider.valmin..slider.valmax :
        /\ slider' = [slider EXCEPT !.val = v]
        /\ moves' = Append(moves, v)
        /\ start_idx' = v
        /\ end_idx' = v + window_size
        /\ LET pos == UpdateEndPos(end_idx', Len(all_timestamps)) IN
           IF IlocOk(all_timestamps, start_idx') /\ IlocOk(all_timestamps, pos)
           THEN /\ xlim' = <<Iloc(all_timestamps, start_idx'),
                             Iloc(all_timestamps, pos)>>
                /\ exception' = exception
           ELSE /\ xlim' = xlim
                /\ exception' = "IndexError"
    /\ UNCHANGED <<dev_df, prod_df, component_name, pc, dev_filtered,
                   prod_filtered, all_timestamps, output, fig, lines>>

\* line 96: plt.show() returns when the window is closed
CloseWindow ==
    /\ pc = "show"
    /\ pc' = "returned"
    /\ UNCHANGED <<dev_df, prod_df, component_name, dev_filtered,
                   prod_filtered, all_timestamps, output, fig, lines, xlim,
                   start_idx, end_idx, slider, exception, moves>>

Next ==
    \/ FilterFrames
    \/ CheckEmpty
    \/ Merge
    \/ Plot
    \/ InitialLimits
    \/ MakeSlider
    \/ Update
    \/ CloseWindow

Spec == Init /\ [][Next]_vars

----------------------------------------------------------------------------
(* Properties *)

N == Len(all_timestamps)

\* the function got as far as setting the first x-axis limits
HasView == pc \in {"make_slider", "show"} \/ (pc = "returned" /\ fig)

\* the slider value, 0 while the slider does not exist yet
Offset == IF slider.created THEN slider.val ELSE 0

Matching(df) == {i \in 1..Len(df) : df[i].component = component_name}

MatchingTimestamps(df) == {df[i].timestamp : i \in Matching(df)}

\* C1: once the first limits are set, and after every slider change to v,
\* the x-axis limits are the timestamps at positions v and
\* min(v + 20, N) - 1 of the merged sequence (v = 0 for the initial view).
C1_VisibleRange ==
    HasView =>
        xlim = <<all_timestamps[Offset + 1],
                 all_timestamps[Min(Offset + 20, N)]>>

C1_Witness ==
    /\ pc = "show"
    /\ moves # <<>>
    /\ slider.val > 0
    /\ slider.val < slider.valmax

\* C2: whenever the slider exists its value lies in 0..max(0, N - 20), both
\* positions read from the merged sequence lie in 0..N-1, and no read of
\* that sequence has raised IndexError.
C2_OffsetInRange ==
    /\ exception = NoException
    /\ slider.created =>
          /\ 0 <= slider.val
          /\ slider.val <= Max(0, N - 20)
          /\ start_idx = slider.val
          /\ start_idx \in 0..(N - 1)
          /\ (Min(start_idx + 20, N) - 1) \in 0..(N - 1)

C2_Witness ==
    /\ pc = "show"
    /\ Len(moves) = MaxMoves
    /\ N > 20
    /\ slider.val = N - 20
    /\ moves[1] = 0

\* C3: when no reading of either series carries the requested label, no
\* figure, line, slider or x-axis range ever exists, no exception is raised,
\* and once the function has returned the only output is the "No data
\* available" message for that label.
C3_NoDataNoView ==
    (Matching(dev_df) = {} /\ Matching(prod_df) = {}) =>
        /\ pc \in {"filter", "check_empty", "returned"}
        /\ ~fig
        /\ lines = <<>>
        /\ ~slider.created
        /\ xlim = <<>>
        /\ moves = <<>>
        /\ exception = NoException
        /\ pc = "returned" => output = <<<<NoDataMsg, component_name>>>>

C3_Witness ==
    /\ Matching(dev_df) = {}
    /\ Matching(prod_df) = {}
    /\ dev_df # <<>>
    /\ prod_df # <<>>
    /\ pc = "returned"
    /\ output = <<<<NoDataMsg, component_name>>>>

\* C4 as stated: with matches in both series, two lines are drawn and the
\* slider's range is [0, N - 20].
C4_Original ==
    (Matching(dev_df) # {} /\ Matching(prod_df) # {} /\ slider.created) =>
        /\ Len(lines) = 2
        /\ slider.valmin = 0
        /\ slider.valmax = N - 20

\* C4 amended: with matches in both series, two lines are drawn (dev, then
\* prod) and the slider's range is [0, max(0, N - 20)].
C4_BothLinesAndRange ==
    (Matching(dev_df) # {} /\ Matching(prod_df) # {} /\ slider.created) =>
        /\ Len(lines) = 2
        /\ lines[1].label = "Dev Volume"
        /\ lines[2].label = "Prod Volume"
        /\ slider.valmin = 0
        /\ slider.valmax = Max(0, N - 20)

C4_Witness ==
    /\ Matching(dev_df) # {}
    /\ Matching(prod_df) # {}
    /\ slider.created
    /\ N < 20
    /\ Len(lines) = 2

\* C5: when 1 <= N <= 20 the slider only ever holds 0 and the x-axis limits
\* are the first and the last merged timestamp.
C5_ShortSeriesSpansAll ==
    (HasView /\ 1 <= N /\ N <= 20) =>
        /\ Offset = 0
        /\ slider.created => slider.valmax = 0
        /\ \A k \in 1..Len(moves) : moves[k] = 0
        /\ xlim = <<all_timestamps[1], all_timestamps[N]>>

C5_Witness ==
    /\ pc = "show"
    /\ 2 <= N
    /\ N <= 20
    /\ moves # <<>>

\* C6: a slider change that leaves the value where it was leaves the x-axis
\* limits where they were, and a change to 0 restores the limits computed
\* at startup, whatever the earlier values were.
C6_HistoryFree ==
    [][(pc = "show" /\ pc' = "show" /\ moves' # moves) =>
          /\ (slider'.val = slider.val => xlim' = xlim)
          /\ (slider'.val = 0 =>
                 xlim' = <<Iloc(all_timestamps, 0),
                           Iloc(all_timestamps, InitialEndIdx(N) - 1)>>)]_vars

C6_Witness ==
    /\ pc = "show"
    /\ Len(moves) = 2
    /\ moves[1] > 0
    /\ moves[2] = 0

\* C7: with the slider at its maximum the right x-axis limit is the last
\* merged timestamp.
C7_MaxShowsLast ==
    (pc = "show" /\ moves # <<>> /\ slider.val = slider.valmax) =>
        /\ slider.valmax = Max(0, N - 20)
        /\ xlim[2] = all_timestamps[N]

C7_Witness ==
    /\ pc = "show"
    /\ moves # <<>>
    /\ slider.val = slider.valmax
    /\ slider.valmax > 1

\* C8: the merged sequence is strictly ascending and its elements are
\* exactly the timestamps of the dev and prod readings carrying the label.
C8_MergedSortedUnion ==
    (pc \notin {"filter", "check_empty", "merge"}) =>
        /\ \A i \in 1..(N - 1) : all_timestamps[i] < all_timestamps[i + 1]
        /\ {all_timestamps[i] : i \in 1..N}
             = MatchingTimestamps(dev_df) \cup MatchingTimestamps(prod_df)

C8_Witness ==
    /\ pc = "plot"
    /\ N >= 2
    /\ MatchingTimestamps(dev_df) \cap MatchingTimestamps(prod_df) # {}
    /\ \E i \in 1..(Len(dev_filtered) - 1) :
          dev_filtered[i].timestamp > dev_filtered[i + 1].timestamp

\* f lists the rows of df at the positions in Matching(df), in increasing
\* order of position
IsFilterOf(f, df) ==
    LET M == Matching(df) IN
    /\ Len(f) = Cardinality(M)
    /\ \A i \in M : f[Cardinality({j \in M : j <= i})] = df[i]
    /\ \A k \in 1..Len(f) : f[k].component # None
    /\ Filter(f, component_name) = f

\* C9: each filtered frame holds exactly the rows whose label equals the
\* requested one, in their original order, never a row without a label, and
\* filtering it again changes nothing.
C9_FilterExact ==
    (pc # "filter") =>
        /\ IsFilterOf(dev_filtered, dev_df)
        /\ IsFilterOf(prod_filtered, prod_df)

C9_Witness ==
    /\ pc = "check_empty"
    /\ Len(dev_filtered) >= 2
    /\ Len(dev_filtered) < Len(dev_df)
    /\ \E i \in 1..Len(dev_df) : dev_df[i].component = None
    /\ \E i \in 1..Len(dev_df) : dev_df[i].component \notin {None, component_name}

\* C10: once the first guard has let the run through, the merged sequence
\* is non-empty and the "No valid timestamps" message is never printed.
C10_SecondGuardDead ==
    /\ \A k \in 1..Len(output) : output[k][1] # NoTimestampsMsg
    /\ (pc \notin {"filter", "check_empty", "merge"}
        /\ ~BothEmpty(dev_filtered, prod_filtered)) => N >= 1

C10_Witness ==
    /\ pc = "plot"
    /\ Empty(dev_filtered)
    /\ Len(prod_filtered) >= 2
    /\ N < Len(prod_filtered)

====
